---- MODULE Spec2Model ----
(***************************************************************************)
(* Model of the algorithm-visualizer backend: the N-Queens step solver,    *)
(* conflict checker and hint engine (src/backend/nqueens.py) and the       *)
(* Rabin-Karp rolling-hash matcher (src/backend/rabinkarp.py).             *)
(*                                                                         *)
(* Boards are functions row -> (col -> 0/1) over 0..n-1, as the nested     *)
(* Python lists are indexed.  Strings are sequences of character codes     *)
(* (ord), so Python index i is TLA+ index i+1.  The human-readable         *)
(* `message` of a step is not modelled; the message of a validation or     *)
(* hint response is kept as a tag naming the case it reports.              *)
(***************************************************************************)
EXTENDS Integers, Sequences, FiniteSets, TLC

VARIABLES
    pc,         \* position of the request being served
    solver,     \* the NQueensSolver instance: n, board, steps, solutions_found
    target,     \* target_solution argument of solve_for_solution
    stack,      \* frames of solve_for_solution, innermost last: [row, col]
    ret,        \* value returned by the frame that returned last
    request,    \* request object handed to an API function
    response,   \* response object it returned
    rk,         \* the RabinKarpVisualizer instance: text, pattern, steps, matches
    rkloc       \* locals of RabinKarpVisualizer.search: pattern_hash, window_hash, h, i

vars == <<pc, solver, target, stack, ret, request, response, rk, rkloc>>

None == "none"

(***************************************************************************)
(* Bounds of the explored inputs.                                          *)
(***************************************************************************)
MaxTraceN  == 5     \* board sizes 1..MaxTraceN in the step-by-step solver
MaxTarget  == 10    \* target_solution in 0..MaxTarget in the step-by-step solver
MaxOver    == 2     \* solution_index from -MaxOver to total-1+MaxOver
MaxBoardN  == 4     \* client boards of size 1..MaxBoardN
MaxQueens  == 4     \* with at most MaxQueens queens, placed anywhere
MaxLen     == 4     \* text and pattern lengths 0..MaxLen

(***************************************************************************)
(* Generic helpers.                                                        *)
(***************************************************************************)
Min(a, b) == IF a < b THEN a ELSE b
Max(a, b) == IF a > b THEN a ELSE b

\* range(k)
Cells(k) == 0..(k - 1)

RECURSIVE ConstFcn(_, _)
\* [v] * k : the function 0..k-1 -> v, built eagerly
ConstFcn(k, v) == IF k = 0 THEN <<>> ELSE ConstFcn(k - 1, v) @@ ((k - 1) :> v)

RECURSIVE SumRow(_, _)
\* sum(row) over the first k entries
SumRow(rowf, k) == IF k = 0 THEN 0 ELSE SumRow(rowf, k - 1) + rowf[k - 1]

StepType == [PLACE |-> "place", BACKTRACK |-> "backtrack", SOLUTION |-> "solution"]

\* Pre-computed solution counts (SOLUTION_COUNTS) and SOLUTION_COUNTS.get(k, 0)
SOLUTION_COUNTS == (4 :> 2) @@ (5 :> 10) @@ (6 :> 4) @@ (7 :> 40) @@ (8 :> 92)
SolutionCountsGet(k) == IF k \in DOMAIN SOLUTION_COUNTS THEN SOLUTION_COUNTS[k] ELSE 0

(***************************************************************************)
(* NQueensSolver                                                           *)
(***************************************************************************)
\* NQueensSolver.__init__
NQueensSolver(k) ==
    [n |-> k, board |-> ConstFcn(k, ConstFcn(k, 0)), steps |-> <<>>, solutions_found |-> 0]

\* board[row][col] = v
SetCell(board, row, col, v) == [board EXCEPT ![row] = [@ EXCEPT ![col] = v]]

RECURSIVE ColumnAbove(_, _, _, _)
\* for i in range(row): if board[i][col] == 1: conflicts.append((i, col))
ColumnAbove(board, row, col, i) ==
    IF i >= row THEN <<>>
    ELSE (IF board[i][col] = 1 THEN << <<i, col>> >> ELSE <<>>)
         \o ColumnAbove(board, row, col, i + 1)

\* is_safe without the scan of the upper-left diagonal
UpperLeft_NoScan(board, i, j) == <<>>

RECURSIVE UpperLeft(_, _, _)
\* while i >= 0 and j >= 0: ...; i -= 1; j -= 1
UpperLeft(board, i, j) ==
    IF i < 0 \/ j < 0 THEN <<>>
    ELSE (IF board[i][j] = 1 THEN << <<i, j>> >> ELSE <<>>)
         \o UpperLeft(board, i - 1, j - 1)

\* is_safe without the scan of the upper-right diagonal
UpperRight_NoScan(k, board, i, j) == <<>>

RECURSIVE UpperRight(_, _, _, _)
\* while i >= 0 and j < self.n: ...; i -= 1; j += 1
UpperRight(k, board, i, j) ==
    IF i < 0 \/ j >= k THEN <<>>
    ELSE (IF board[i][j] = 1 THEN << <<i, j>> >> ELSE <<>>)
         \o UpperRight(k, board, i - 1, j + 1)

\* NQueensSolver.is_safe(row, col, board) on a solver of size k
is_safe(k, row, col, board) ==
    LET conflicts == ColumnAbove(board, row, col, 0)
                     \o UpperLeft(board, row - 1, col - 1)
                     \o UpperRight(k, board, row - 1, col + 1)
    IN  [safe |-> Len(conflicts) = 0, conflicts |-> conflicts]

RECURSIVE CopyRow(_, _)
CopyRow(rowf, k) == IF k = 0 THEN <<>> ELSE CopyRow(rowf, k - 1) @@ ((k - 1) :> rowf[k - 1])

RECURSIVE CopyRows(_, _, _)
CopyRows(board, k, w) ==
    IF k = 0 THEN <<>> ELSE CopyRows(board, k - 1, w) @@ ((k - 1) :> CopyRow(board[k - 1], w))

\* NQueensSolver.get_board_copy: [row[:] for row in self.board]
get_board_copy(s) == CopyRows(s.board, s.n, s.n)

SolveStep(type, row, col, board) ==
    [step_type |-> type, row |-> row, col |-> col, board |-> board]

\* row == self.n branch: count the solution and record it
RecordSolution(s) ==
    [s EXCEPT !.solutions_found = s.solutions_found + 1,
              !.steps = Append(s.steps, SolveStep(StepType.SOLUTION, -1, -1, get_board_copy(s)))]

\* self.board[row][col] = 1; steps.append(PLACE ...)
PlaceQueen(s, row, col) ==
    LET placed == [s EXCEPT !.board = SetCell(s.board, row, col, 1)]
    IN  [placed EXCEPT !.steps =
            Append(s.steps, SolveStep(StepType.PLACE, row, col, get_board_copy(placed)))]

\* a backtrack that records its step but leaves the queen on the board
RemoveQueen_KeepQueen(s, row, col) ==
    [s EXCEPT !.steps =
        Append(s.steps, SolveStep(StepType.BACKTRACK, row, col, get_board_copy(s)))]

\* self.board[row][col] = 0; steps.append(BACKTRACK ...)
RemoveQueen(s, row, col) ==
    LET removed == [s EXCEPT !.board = SetCell(s.board, row, col, 0)]
    IN  [removed EXCEPT !.steps =
            Append(s.steps, SolveStep(StepType.BACKTRACK, row, col, get_board_copy(removed)))]

\* stop one solution early: solutions_found >= target_solution
StopAfter_AtTarget(s, t) == s.solutions_found >= t

\* return self.solutions_found > target_solution
StopAfter(s, t) == s.solutions_found > t


RECURSIVE NextSafeCol(_, _, _)
\* the for-loop of solve_for_solution skipping columns that are not safe:
\* the first col >= from with is_safe(row, col), or n when there is none
NextSafeCol(s, row, from) ==
    IF from >= s.n THEN s.n
    ELSE IF is_safe(s.n, row, from, s.board).safe THEN from
    ELSE NextSafeCol(s, row, from + 1)

(***************************************************************************)
(* solve_for_solution as a pure function of (solver, target, row): the     *)
(* result is [ret, solver].                                                *)
(***************************************************************************)
RECURSIVE solve_for_solution(_, _, _), solve_loop(_, _, _, _), solve_after(_, _, _, _)
solve_for_solution(s, t, row) ==
    IF row = s.n
    THEN LET found == RecordSolution(s)
         IN  [ret |-> StopAfter(found, t), solver |-> found]
    ELSE solve_loop(s, t, row, 0)

\* for col in range(from, n)
solve_loop(s, t, row, from) ==
    LET col == NextSafeCol(s, row, from)
    IN  IF col >= s.n
        THEN [ret |-> FALSE, solver |-> s]
        ELSE solve_after(solve_for_solution(PlaceQueen(s, row, col), t, row + 1), t, row, col)

\* if self.solve_for_solution(target_solution, row + 1): return True; else backtrack
solve_after(r, t, row, col) ==
    IF r.ret THEN r
    ELSE solve_loop(RemoveQueen(r.solver, row, col), t, row, col + 1)

(***************************************************************************)
(* solve_for_solution step by step: one action per recorded step or        *)
(* return.  stack holds the active frames; the top frame is at             *)
(* row = Len(stack) - 1 and `col` is its loop variable.                    *)
(***************************************************************************)
Top == stack[Len(stack)]
Pop == SubSeq(stack, 1, Len(stack) - 1)
Frame(row, col) == [row |-> row, col |-> col]

\* if row == self.n: record SOLUTION and return solutions_found > target
FoundSolution ==
    /\ pc = "run"
    /\ Top.row = solver.n
    /\ solver' = RecordSolution(solver)
    /\ ret' = StopAfter(solver', target)
    /\ stack' = Pop
    /\ pc' = "return"
    /\ UNCHANGED <<target, request, response, rk, rkloc>>

\* the loop reaches a safe column: place the queen, record PLACE, recurse
Place ==
    /\ pc = "run"
    /\ Top.row < solver.n
    /\ NextSafeCol(solver, Top.row, Top.col) < solver.n
    /\ LET col == NextSafeCol(solver, Top.row, Top.col)
       IN  /\ solver' = PlaceQueen(solver, Top.row, col)
           /\ stack' = Append(Append(Pop, Frame(Top.row, col)), Frame(Top.row + 1, 0))
    /\ UNCHANGED <<pc, ret, target, request, response, rk, rkloc>>

\* the loop runs out of columns: return False
ReturnFalse ==
    /\ pc = "run"
    /\ Top.row < solver.n
    /\ NextSafeCol(solver, Top.row, Top.col) >= solver.n
    /\ ret' = FALSE
    /\ stack' = Pop
    /\ pc' = "return"
    /\ UNCHANGED <<solver, target, request, response, rk, rkloc>>

\* the recursive call returned True: return True
PropagateStop ==
    /\ pc = "return"
    /\ stack # <<>>
    /\ ret
    /\ stack' = Pop
    /\ UNCHANGED <<pc, ret, solver, target, request, response, rk, rkloc>>

\* the recursive call returned False: remove the queen, record BACKTRACK, next col
Backtrack ==
    /\ pc = "return"
    /\ stack # <<>>
    /\ ~ret
    /\ solver' = RemoveQueen(solver, Top.row, Top.col)
    /\ stack' = Append(Pop, Frame(Top.row, Top.col + 1))
    /\ pc' = "run"
    /\ UNCHANGED <<ret, target, request, response, rk, rkloc>>

\* the outermost call returned
TraceReturn ==
    /\ pc = "return"
    /\ stack = <<>>
    /\ pc' = "done"
    /\ UNCHANGED <<ret, solver, stack, target, request, response, rk, rkloc>>

\* a fresh solver of size n and the call solve_for_solution(target), row = 0
TraceInit ==
    /\ pc = "run"
    /\ \E k \in 1..MaxTraceN : solver = NQueensSolver(k)
    /\ target \in 0..MaxTarget
    /\ stack = <<Frame(0, 0)>>
    /\ ret = FALSE
    /\ request = None
    /\ response = None
    /\ rk = None
    /\ rkloc = None

TraceNext == FoundSolution \/ Place \/ ReturnFalse \/ PropagateStop \/ Backtrack \/ TraceReturn

SpecTrace == TraceInit /\ [][TraceNext]_vars

\* the call is synchronous: it keeps running until it returns
SpecTraceFair == SpecTrace /\ WF_vars(TraceNext)

(***************************************************************************)
(* solve_nqueens: the Solve operation, served in one step.                 *)
(***************************************************************************)
\* a clamp without the lower bound
ClampIndex_NoLowerBound(idx, total) == IF total > 0 THEN Min(idx, total - 1) ELSE 0

\* max(0, min(request.solution_index, total - 1)) if total > 0 else 0
ClampIndex(idx, total) == IF total > 0 THEN Max(0, Min(idx, total - 1)) ELSE 0

solve_nqueens(req) ==
    LET total == SolutionCountsGet(req.n)
        solution_index == ClampIndex(req.solution_index, total)
        r == solve_for_solution(NQueensSolver(req.n), solution_index, 0)
    IN  [steps |-> r.solver.steps,
         total_solutions |-> total,
         current_solution |-> solution_index + 1]

SolveRequest(k, idx) == [n |-> k, solution_index |-> idx]

SolveNQueens ==
    /\ pc = "solve"
    /\ response' = solve_nqueens(request)
    /\ pc' = "solved"
    /\ UNCHANGED <<solver, target, stack, ret, request, rk, rkloc>>

\* a Solve request for a catalogued n, solution_index in and around the valid range
SolveInit ==
    /\ pc = "solve"
    /\ \E k \in DOMAIN SOLUTION_COUNTS :
         \E idx \in (0 - MaxOver)..(SOLUTION_COUNTS[k] - 1 + MaxOver) :
            request = SolveRequest(k, idx)
    /\ response = None
    /\ solver = None
    /\ target = None
    /\ stack = <<>>
    /\ ret = FALSE
    /\ rk = None
    /\ rkloc = None

SolveNext == SolveNQueens

SpecSolve == SolveInit /\ [][SolveNext]_vars

(***************************************************************************)
(* Conflict checker, move validation and hints on client boards.           *)
(***************************************************************************)
\* validate_move; message is kept as a tag
validate_move(req) ==
    IF req.board[req.row][req.col] = 1
    THEN [valid |-> FALSE, message |-> "already_queen", conflicts |-> <<>>]
    ELSE IF is_safe(req.n, req.row, req.col, req.board).safe
         THEN [valid |-> TRUE, message |-> "valid_move", conflicts |-> <<>>]
         ELSE [valid |-> FALSE, message |-> "conflicts",
               conflicts |-> is_safe(req.n, req.row, req.col, req.board).conflicts]

RECURSIVE FirstEmptyRow(_, _, _)
\* for row in range(self.n): if sum(current_board[row]) == 0: first_empty_row = row; break
FirstEmptyRow(k, board, row) ==
    IF row >= k THEN -1
    ELSE IF SumRow(board[row], k) = 0 THEN row
    ELSE FirstEmptyRow(k, board, row + 1)

\* get_hint without the check of the rows above the first empty row
FirstBadRow_Skip(k, board, first_empty_row, row) == -1

RECURSIVE FirstBadRow(_, _, _, _)
\* for row in range(first_empty_row): if sum(current_board[row]) != 1: return ...
FirstBadRow(k, board, first_empty_row, row) ==
    IF row >= first_empty_row THEN -1
    ELSE IF SumRow(board[row], k) # 1 THEN row
    ELSE FirstBadRow(k, board, first_empty_row, row + 1)

HintResponse(has_hint, row, col, message) ==
    [has_hint |-> has_hint, row |-> row, col |-> col, message |-> message]

\* NQueensSolver.get_hint; message is kept as a tag with its row numbers
solver_get_hint(k, current_board) ==
    LET first_empty_row == FirstEmptyRow(k, current_board, 0)
        bad == FirstBadRow(k, current_board, first_empty_row, 0)
        col == NextSafeCol([n |-> k, board |-> current_board], first_empty_row, 0)
    IN  IF first_empty_row = -1
        THEN HintResponse(FALSE, None, None, <<"all_placed">>)
        ELSE IF bad # -1
        THEN HintResponse(FALSE, None, None, <<"needs_one_queen", bad + 1, first_empty_row + 1>>)
        ELSE IF col < k
        THEN HintResponse(TRUE, first_empty_row, col, <<"try", first_empty_row + 1, col + 1>>)
        ELSE HintResponse(FALSE, None, None, <<"backtrack">>)

\* get_hint(request)
get_hint(req) == solver_get_hint(req.n, req.board)

RECURSIVE QueenSets(_, _)
\* the sets of at most q cells of a k x k board
QueenSets(k, q) ==
    IF q = 0 THEN {{}}
    ELSE QueenSets(k, q - 1)
         \cup {S \cup {cell} : S \in QueenSets(k, q - 1), cell \in Cells(k) \X Cells(k)}

\* the 0/1 board with queens exactly at the cells of S
BoardOf(k, S) ==
    CopyRows([r \in Cells(k) |-> [c \in Cells(k) |-> IF <<r, c>> \in S THEN 1 ELSE 0]], k, k)

\* the k x k boards with at most MaxQueens queens, anywhere
Boards(k) == {BoardOf(k, S) : S \in QueenSets(k, MaxQueens)}

\* POST /api/nqueens/validate
ValidateMove ==
    /\ pc = "board"
    /\ \E row \in Cells(request.n), col \in Cells(request.n) :
         /\ request' = [n |-> request.n, board |-> request.board, row |-> row, col |-> col]
         /\ response' = validate_move(request')
    /\ pc' = "validated"
    /\ UNCHANGED <<solver, target, stack, ret, rk, rkloc>>

\* NQueensSolver.is_safe called with a client board
IsSafe ==
    /\ pc = "board"
    /\ \E row \in Cells(request.n), col \in Cells(request.n) :
         /\ request' = [n |-> request.n, board |-> request.board, row |-> row, col |-> col]
         /\ response' = is_safe(request.n, row, col, request.board)
    /\ pc' = "checked"
    /\ UNCHANGED <<solver, target, stack, ret, rk, rkloc>>

\* POST /api/nqueens/hint
GetHint ==
    /\ pc = "board"
    /\ response' = get_hint(request)
    /\ pc' = "hinted"
    /\ UNCHANGED <<solver, target, stack, ret, request, rk, rkloc>>

\* a client board of declared size n
BoardInit ==
    /\ pc = "board"
    /\ \E k \in 1..MaxBoardN : \E b \in Boards(k) : request = [n |-> k, board |-> b]
    /\ response = None
    /\ solver = None
    /\ target = None
    /\ stack = <<>>
    /\ ret = FALSE
    /\ rk = None
    /\ rkloc = None

BoardNext == ValidateMove \/ IsSafe \/ GetHint

SpecBoard == BoardInit /\ [][BoardNext]_vars

(***************************************************************************)
(* RabinKarpVisualizer                                                     *)
(***************************************************************************)
RKStepType ==
    [COMPUTE_PATTERN_HASH |-> "compute_pattern_hash",
     COMPUTE_WINDOW_HASH |-> "compute_window_hash",
     COMPARE_HASH |-> "compare_hash",
     HASH_MATCH |-> "hash_match",
     VERIFY_MATCH |-> "verify_match",
     MATCH_FOUND |-> "match_found",
     NO_MATCH |-> "no_match",
     SLIDE_WINDOW |-> "slide_window"]

\* default arguments of RabinKarpVisualizer.__init__
Base == 256
Prime == 101

\* character codes (ord) of the explored alphabet: 'a', 'b' and U+00C6,
\* whose code is congruent to that of 'a' modulo Prime
Alphabet == {97, 98, 198}

RECURSIVE Strings(_)
\* the strings of exactly k characters
Strings(k) ==
    IF k = 0 THEN {<<>>}
    ELSE {Append(w, c) : w \in Strings(k - 1), c \in Alphabet}

StringsUpTo(k) == UNION {Strings(j) : j \in 0..k}

\* Python slice s[a:b] for 0 <= a <= b, clipped to the string
Slice(s, a, b) == SubSeq(s, a + 1, Min(b, Len(s)))

RECURSIVE RangeList(_, _)
\* list(range(a, b))
RangeList(a, b) == IF a >= b THEN <<>> ELSE <<a>> \o RangeList(a + 1, b)

\* Python's % with a positive modulus: the result is in [0, p)
PyMod(a, p) == a % p

\* RabinKarpVisualizer.__init__
RabinKarpVisualizer(text, pattern) ==
    [text |-> text, pattern |-> pattern, base |-> Base, prime |-> Prime,
     steps |-> <<>>, matches |-> <<>>, n |-> Len(text), m |-> Len(pattern)]

RECURSIVE HashFold(_, _, _)
\* h after the first k characters of s: h = (base * h + ord(char)) % prime
HashFold(v, s, k) ==
    IF k = 0 THEN 0 ELSE PyMod(v.base * HashFold(v, s, k - 1) + s[k], v.prime)

\* RabinKarpVisualizer.compute_hash
compute_hash(v, s) == HashFold(v, s, Len(s))

RECURSIVE PowMod(_, _, _)
\* pow(b, e, p)
PowMod(b, e, p) == IF e = 0 THEN PyMod(1, p) ELSE PyMod(b * PowMod(b, e - 1, p), p)

\* a rolling update that removes the leading character without its weight h
RollHash_NoLeadWeight(v, window_hash, old_char, new_char, h) ==
    PyMod(v.base * (window_hash - old_char) + new_char, v.prime)

\* the rolling update of window_hash, with its normalisation
RollHash(v, window_hash, old_char, new_char, h) ==
    LET rolled == PyMod(v.base * (window_hash - old_char * h) + new_char, v.prime)
    IN  IF rolled < 0 THEN rolled + v.prime ELSE rolled

RKStep(type, ws, we, ph, wh, is_match, hl) ==
    [step_type |-> type, window_start |-> ws, window_end |-> we,
     pattern_hash |-> ph, window_hash |-> wh, is_match |-> is_match,
     highlight_indices |-> hl]

\* window steps whose window_end is one past the window
WindowStep_EndPastWindow(type, is_match) ==
    RKStep(type, rkloc.i, rkloc.i + rk.m, rkloc.pattern_hash, rkloc.window_hash,
           is_match, RangeList(rkloc.i, rkloc.i + rk.m))

\* a step for the current window [i, i + m - 1]
WindowStep(type, is_match) ==
    RKStep(type, rkloc.i, rkloc.i + rk.m - 1, rkloc.pattern_hash, rkloc.window_hash,
           is_match, RangeList(rkloc.i, rkloc.i + rk.m))

\* search_rabin_karp's response
RKSearchResponse(v) ==
    [steps |-> v.steps, matches |-> v.matches, text |-> v.text, pattern |-> v.pattern]

\* if self.m > self.n or self.m == 0: return []
RKDegenerate ==
    /\ pc = "rk_start"
    /\ rk.m > rk.n \/ rk.m = 0
    /\ response' = RKSearchResponse(rk)
    /\ pc' = "rk_done"
    /\ UNCHANGED <<rk, rkloc, solver, target, stack, ret, request>>

ComputePatternHash ==
    /\ pc = "rk_start"
    /\ ~(rk.m > rk.n \/ rk.m = 0)
    /\ rkloc' = [rkloc EXCEPT !.pattern_hash = compute_hash(rk, rk.pattern)]
    /\ rk' = [rk EXCEPT !.steps = Append(@,
                 RKStep(RKStepType.COMPUTE_PATTERN_HASH, -1, -1, rkloc'.pattern_hash, 0, FALSE, <<>>))]
    /\ pc' = "rk_window"
    /\ UNCHANGED <<response, solver, target, stack, ret, request>>

\* first window hash, h = pow(base, m - 1, prime), and entry into the loop at i = 0
ComputeWindowHash ==
    /\ pc = "rk_window"
    /\ rkloc' = [rkloc EXCEPT !.window_hash = compute_hash(rk, Slice(rk.text, 0, rk.m)),
                              !.h = PowMod(rk.base, rk.m - 1, rk.prime),
                              !.i = 0]
    /\ rk' = [rk EXCEPT !.steps = Append(@,
                 RKStep(RKStepType.COMPUTE_WINDOW_HASH, 0, rk.m - 1, rkloc.pattern_hash,
                        rkloc'.window_hash, FALSE, RangeList(0, rk.m)))]
    /\ pc' = "rk_compare"
    /\ UNCHANGED <<response, solver, target, stack, ret, request>>

CompareHash ==
    /\ pc = "rk_compare"
    /\ rk' = [rk EXCEPT !.steps = Append(@, WindowStep(RKStepType.COMPARE_HASH, FALSE))]
    /\ pc' = IF rkloc.pattern_hash = rkloc.window_hash THEN "rk_hash_match" ELSE "rk_slide"
    /\ UNCHANGED <<rkloc, response, solver, target, stack, ret, request>>

HashMatch ==
    /\ pc = "rk_hash_match"
    /\ rk' = [rk EXCEPT !.steps = Append(@, WindowStep(RKStepType.HASH_MATCH, FALSE))]
    /\ pc' = "rk_verify"
    /\ UNCHANGED <<rkloc, response, solver, target, stack, ret, request>>

\* a verification that trusts the hash
WindowEqualsPattern_HashOnly(v, i) == TRUE

\* self.text[i:i + self.m] == self.pattern
WindowEqualsPattern(v, i) == Slice(v.text, i, i + v.m) = v.pattern

MatchFound ==
    /\ pc = "rk_verify"
    /\ WindowEqualsPattern(rk, rkloc.i)
    /\ rk' = [rk EXCEPT !.matches = Append(@, rkloc.i),
                        !.steps = Append(@, WindowStep(RKStepType.MATCH_FOUND, TRUE))]
    /\ pc' = "rk_slide"
    /\ UNCHANGED <<rkloc, response, solver, target, stack, ret, request>>

NoMatch ==
    /\ pc = "rk_verify"
    /\ ~WindowEqualsPattern(rk, rkloc.i)
    /\ rk' = [rk EXCEPT !.steps = Append(@, WindowStep(RKStepType.NO_MATCH, FALSE))]
    /\ pc' = "rk_slide"
    /\ UNCHANGED <<rkloc, response, solver, target, stack, ret, request>>

\* if i < self.n - self.m: roll the hash, record SLIDE_WINDOW, next i
SlideWindow ==
    /\ pc = "rk_slide"
    /\ rkloc.i < rk.n - rk.m
    /\ rkloc' = [rkloc EXCEPT
                    !.window_hash = RollHash(rk, rkloc.window_hash, rk.text[rkloc.i + 1],
                                             rk.text[rkloc.i + rk.m + 1], rkloc.h),
                    !.i = rkloc.i + 1]
    /\ rk' = [rk EXCEPT !.steps = Append(@,
                 RKStep(RKStepType.SLIDE_WINDOW, rkloc.i + 1, rkloc.i + rk.m, rkloc.pattern_hash,
                        rkloc'.window_hash, FALSE, RangeList(rkloc.i + 1, rkloc.i + rk.m + 1)))]
    /\ pc' = "rk_compare"
    /\ UNCHANGED <<response, solver, target, stack, ret, request>>

\* the last window is done: return self.matches
RKReturn ==
    /\ pc = "rk_slide"
    /\ ~(rkloc.i < rk.n - rk.m)
    /\ response' = RKSearchResponse(rk)
    /\ pc' = "rk_done"
    /\ UNCHANGED <<rk, rkloc, solver, target, stack, ret, request>>

\* a search request: a fresh visualizer for (text, pattern)
RKInit ==
    /\ pc = "rk_start"
    /\ \E text \in StringsUpTo(MaxLen), pattern \in StringsUpTo(MaxLen) :
         /\ request = [text |-> text, pattern |-> pattern]
         /\ rk = RabinKarpVisualizer(text, pattern)
    /\ rkloc = [pattern_hash |-> None, window_hash |-> None, h |-> None, i |-> None]
    /\ response = None
    /\ solver = None
    /\ target = None
    /\ stack = <<>>
    /\ ret = FALSE

RKNext ==
    \/ RKDegenerate \/ ComputePatternHash \/ ComputeWindowHash \/ CompareHash
    \/ HashMatch \/ MatchFound \/ NoMatch \/ SlideWindow \/ RKReturn

SpecRK == RKInit /\ [][RKNext]_vars

(***************************************************************************)
(* Properties of the Rabin-Karp matcher (SpecRK).                          *)
(***************************************************************************)
RECURSIVE DirectMatchesFrom(_, _)
\* the indices i >= from at which text[i:i+len(pattern)] == pattern, ascending
DirectMatchesFrom(v, from) ==
    IF from > v.n THEN <<>>
    ELSE (IF Slice(v.text, from, from + v.m) = v.pattern THEN <<from>> ELSE <<>>)
         \o DirectMatchesFrom(v, from + 1)

DirectMatches(v) == DirectMatchesFrom(v, 0)

StepsOfType(steps, type) == {k \in DOMAIN steps : steps[k].step_type = type}

\* C1 as stated: for every text/pattern pair the returned matches are exactly
\* the indices i with text[i:i+len(pattern)] == pattern, each once, ascending.
C1_MatchesAreDirectMatches ==
    pc = "rk_done" => response.matches = DirectMatches(rk)

\* C1 amended: for a non-empty pattern the returned matches are exactly the
\* indices i with text[i:i+len(pattern)] == pattern, each once and ascending;
\* for the empty pattern the returned matches are empty.
C1_MatchesAreDirectMatchesNonEmpty ==
    pc = "rk_done" =>
        response.matches = (IF rk.m = 0 THEN <<>> ELSE DirectMatches(rk))

\* a finished search that reported two matches and met a hash collision
C1_Witness ==
    /\ pc = "rk_done"
    /\ Len(response.matches) >= 2
    /\ StepsOfType(response.steps, RKStepType.NO_MATCH) # {}

\* C8: with 0 < m <= n, the window_hash recorded at every COMPARE_HASH step for
\* window start i is in [0, prime) and equals compute_hash(text[i:i+m]).
C8_RollingHashIsDirectHash ==
    \A k \in StepsOfType(rk.steps, RKStepType.COMPARE_HASH) :
        /\ rk.steps[k].window_hash \in 0..(rk.prime - 1)
        /\ rk.steps[k].window_hash =
              compute_hash(rk, Slice(rk.text, rk.steps[k].window_start,
                                     rk.steps[k].window_start + rk.m))

\* a COMPARE_HASH step recorded after two slides whose rolling update went
\* through a negative intermediate value
C8_Witness ==
    /\ pc = "rk_slide"
    /\ rkloc.i = 2
    /\ rk.m = 2
    /\ rk.steps[Len(rk.steps)].step_type = RKStepType.COMPARE_HASH
    /\ rk.base * (compute_hash(rk, Slice(rk.text, 1, 3)) - rk.text[2] * rkloc.h) + rk.text[4] < 0

IsStep(st, type, ws, we) ==
    st.step_type = type /\ st.window_start = ws /\ st.window_end = we

RECURSIVE WindowsWellFormed(_, _, _, _)
\* steps[k..] is the trace of the loop from window start i on
WindowsWellFormed(v, steps, k, i) ==
    /\ k <= Len(steps)
    /\ IsStep(steps[k], RKStepType.COMPARE_HASH, i, i + v.m - 1)
    /\ LET equal == steps[k].pattern_hash = steps[k].window_hash
           k2 == IF equal THEN k + 3 ELSE k + 1
       IN  /\ equal =>
                /\ k + 2 <= Len(steps)
                /\ steps[k + 1].step_type = RKStepType.HASH_MATCH
                /\ \/ steps[k + 2].step_type = RKStepType.MATCH_FOUND /\ steps[k + 2].is_match
                   \/ steps[k + 2].step_type = RKStepType.NO_MATCH
           /\ IF i < v.n - v.m
              THEN /\ k2 <= Len(steps)
                   /\ IsStep(steps[k2], RKStepType.SLIDE_WINDOW, i + 1, i + v.m)
                   /\ WindowsWellFormed(v, steps, k2 + 1, i + 1)
              ELSE k2 = Len(steps) + 1

\* C10: for 0 < m <= n the step list is COMPUTE_PATTERN_HASH (-1,-1),
\* COMPUTE_WINDOW_HASH [0,m-1], then for i = 0..n-m: COMPARE_HASH [i,i+m-1];
\* iff the hashes are equal HASH_MATCH and then MATCH_FOUND (is_match) or
\* NO_MATCH; iff i < n-m SLIDE_WINDOW [i+1,i+m].  There are n-m+1 COMPARE_HASH
\* and n-m SLIDE_WINDOW steps and is_match is true only on MATCH_FOUND steps.
C10_StepOrder ==
    (pc = "rk_done" /\ 0 < rk.m /\ rk.m <= rk.n) =>
        /\ Len(response.steps) >= 2
        /\ IsStep(response.steps[1], RKStepType.COMPUTE_PATTERN_HASH, -1, -1)
        /\ IsStep(response.steps[2], RKStepType.COMPUTE_WINDOW_HASH, 0, rk.m - 1)
        /\ WindowsWellFormed(rk, response.steps, 3, 0)
        /\ Cardinality(StepsOfType(response.steps, RKStepType.COMPARE_HASH)) = rk.n - rk.m + 1
        /\ Cardinality(StepsOfType(response.steps, RKStepType.SLIDE_WINDOW)) = rk.n - rk.m
        /\ \A k \in DOMAIN response.steps :
              response.steps[k].is_match =>
                 response.steps[k].step_type = RKStepType.MATCH_FOUND

\* a finished search with a match, a collision, a hash mismatch and slides
C10_Witness ==
    /\ pc = "rk_done"
    /\ StepsOfType(response.steps, RKStepType.MATCH_FOUND) # {}
    /\ StepsOfType(response.steps, RKStepType.NO_MATCH) # {}
    /\ Cardinality(StepsOfType(response.steps, RKStepType.HASH_MATCH)) <
          Cardinality(StepsOfType(response.steps, RKStepType.COMPARE_HASH))
    /\ Cardinality(StepsOfType(response.steps, RKStepType.SLIDE_WINDOW)) >= 2

(***************************************************************************)
(* Properties of the N-Queens engines.                                     *)
(***************************************************************************)
Queens(k, b) == {cell \in Cells(k) \X Cells(k) : b[cell[1]][cell[2]] = 1}

\* two distinct cells on a common column or diagonal
Attack(p, q) ==
    /\ p # q
    /\ \/ p[2] = q[2]
       \/ p[1] - p[2] = q[1] - q[2]
       \/ p[1] + p[2] = q[1] + q[2]

AtMostOnePerRow(k, b) ==
    \A p, q \in Queens(k, b) : p[1] = q[1] => p = q

NoAttack(k, b) ==
    \A p, q \in Queens(k, b) : ~Attack(p, q)

RowsBelowEmpty(k, b, row) ==
    \A r \in Cells(k) : r > row => \A c \in Cells(k) : b[r][c] = 0

\* exactly k queens, one per row and one per column, no shared diagonal
ValidSolution(k, b) ==
    /\ Cardinality(Queens(k, b)) = k
    /\ \A r \in Cells(k) : Cardinality({q \in Queens(k, b) : q[1] = r}) = 1
    /\ \A c \in Cells(k) : Cardinality({q \in Queens(k, b) : q[2] = c}) = 1
    /\ NoAttack(k, b)

SearchBoardOK(k, b) == AtMostOnePerRow(k, b) /\ NoAttack(k, b)

\* C9: at every point of solve_for_solution and in the snapshot of every
\* recorded step, the board has at most one queen per row, no two queens on a
\* common column or diagonal, and the rows below the row of the PLACE or
\* BACKTRACK step just recorded are empty.
C9_SearchBoardInvariant ==
    /\ SearchBoardOK(solver.n, solver.board)
    /\ \A k \in DOMAIN solver.steps :
          /\ SearchBoardOK(solver.n, solver.steps[k].board)
          /\ solver.steps[k].step_type # StepType.SOLUTION =>
                RowsBelowEmpty(solver.n, solver.steps[k].board, solver.steps[k].row)
    /\ (solver.steps # <<>> /\ solver.steps[Len(solver.steps)].step_type # StepType.SOLUTION) =>
          RowsBelowEmpty(solver.n, solver.board, solver.steps[Len(solver.steps)].row)

\* the search has just backtracked out of row 2 of a 5 x 5 board after it had
\* found a solution, and two queens are still on the board
C9_Witness ==
    /\ pc = "run"
    /\ solver.n = 5
    /\ solver.solutions_found >= 1
    /\ solver.steps[Len(solver.steps)].step_type = StepType.BACKTRACK
    /\ solver.steps[Len(solver.steps)].row = 2
    /\ Cardinality(Queens(solver.n, solver.board)) = 2

\* every call of solve_for_solution returns (checked under SpecTraceFair)
TraceTerminates == <>(pc = "done")

InRange(req) == req.solution_index \in 0..(SolutionCountsGet(req.n) - 1)

LastStep(steps) == steps[Len(steps)]

EndsInValidSolution(req, resp) ==
    /\ resp.steps # <<>>
    /\ LastStep(resp.steps).step_type = StepType.SOLUTION
    /\ ValidSolution(req.n, LastStep(resp.steps).board)

\* C2: for every N in {4..8} and every i in [0, totalSolutions-1], once
\* Solve(N, i) has returned, the last step of the returned step list is a
\* SOLUTION step and its board holds exactly N queens, one per row and one per
\* column, no two on a common diagonal.
C2_SolveEndsInValidSolution ==
    (pc = "solved" /\ InRange(request)) => EndsInValidSolution(request, response)

\* the last solution of the 8 x 8 board was requested and returned
C2_Witness ==
    /\ pc = "solved"
    /\ request = SolveRequest(8, 91)
    /\ EndsInValidSolution(request, response)

SolutionSteps(steps) == {k \in DOMAIN steps : steps[k].step_type = StepType.SOLUTION}

\* C3 as stated: for in-range i the step list of Solve(N, i) contains exactly
\* one SOLUTION step, the final one.
C3_ExactlyOneSolutionStep ==
    (pc = "solved" /\ InRange(request)) =>
        SolutionSteps(response.steps) = {Len(response.steps)}

\* C3 amended: for in-range i the step list of Solve(N, i) contains exactly
\* i + 1 SOLUTION steps, one for each of the solutions 0..i, and the last of
\* them is the final step.
C3_OneSolutionStepPerSolution ==
    (pc = "solved" /\ InRange(request)) =>
        /\ Cardinality(SolutionSteps(response.steps)) = request.solution_index + 1
        /\ Len(response.steps) \in SolutionSteps(response.steps)

\* a request for the fourth solution returned a trace with earlier SOLUTION steps
C3_Witness ==
    /\ pc = "solved"
    /\ request.solution_index = 3
    /\ Cardinality(SolutionSteps(response.steps)) = 4

OutOfRange(req) == ~InRange(req)

\* C4 as stated: for every out-of-range i (i < 0 or i >= totalSolutions),
\* Solve(N, i) returns what Solve(N, totalSolutions-1) returns.
C4_ClampsToLast ==
    (pc = "solved" /\ OutOfRange(request)) =>
        response = solve_nqueens(SolveRequest(request.n, SolutionCountsGet(request.n) - 1))

\* C4 amended: for i >= totalSolutions Solve(N, i) returns what
\* Solve(N, totalSolutions-1) returns, and for i < 0 it returns what
\* Solve(N, 0) returns.
C4_ClampsIntoRange ==
    (pc = "solved" /\ OutOfRange(request)) =>
        response = solve_nqueens(SolveRequest(request.n,
                      IF request.solution_index < 0 THEN 0
                      ELSE SolutionCountsGet(request.n) - 1))

\* an index past the end was served with the last solution's trace
C4_Witness ==
    /\ pc = "solved"
    /\ request.solution_index >= SolutionCountsGet(request.n)
    /\ response.current_solution = SolutionCountsGet(request.n)
    /\ Cardinality(SolutionSteps(response.steps)) = SolutionCountsGet(request.n)

\* C5: for every board and cell (row, col) at which is_safe returns true, once
\* a queen is placed at (row, col), is_safe at any other empty cell of the
\* same row returns false.
C5_RowDuplicateRejected ==
    (pc = "checked" /\ response.safe) =>
        LET placed == SetCell(request.board, request.row, request.col, 1)
        IN  \A col \in Cells(request.n) \ {request.col} :
               placed[request.row][col] = 0 =>
                  ~is_safe(request.n, request.row, col, placed).safe

RowIsEmpty(k, b, r) == \A c \in Cells(k) : b[r][c] = 0
RowHasOneQueen(k, b, r) == Cardinality({c \in Cells(k) : b[r][c] = 1}) = 1
EmptyRows(k, b) == {r \in Cells(k) : RowIsEmpty(k, b, r)}
SetMin(S) == CHOOSE x \in S : \A y \in S : x <= y
SafeCols(k, b, r) == {c \in Cells(k) : is_safe(k, r, c, b).safe}

\* the first row without a queen exists, the rows above it hold one queen each
\* and it has a safe column
HintExists(k, b) ==
    /\ EmptyRows(k, b) # {}
    /\ \A r \in Cells(k) : r < SetMin(EmptyRows(k, b)) => RowHasOneQueen(k, b, r)
    /\ SafeCols(k, b, SetMin(EmptyRows(k, b))) # {}

\* C6: Hint returns has_hint=true iff there is a first row r without a queen,
\* every row above r holds exactly one queen and row r has a safe column; then
\* row = r and col is the smallest safe column of row r.  Otherwise has_hint is
\* false and row and col are absent.
C6_HintCharacterisation ==
    pc = "hinted" =>
        IF HintExists(request.n, request.board)
        THEN /\ response.has_hint
             /\ response.row = SetMin(EmptyRows(request.n, request.board))
             /\ response.col = SetMin(SafeCols(request.n, request.board, response.row))
        ELSE /\ ~response.has_hint
             /\ response.row = None
             /\ response.col = None

\* a hint below the first row whose smallest safe column is the last column
C6_Witness ==
    /\ pc = "hinted"
    /\ response.has_hint
    /\ response.row = 1
    /\ response.col = 2

RECURSIVE LineTopDown(_, _, _, _, _, _), LineBottomUp(_, _, _, _, _, _)
\* the queens at (i, col + dc * (row - i)) for i = from, from + 1, ..., row - 1
LineTopDown(k, b, row, col, dc, from) ==
    IF from >= row THEN <<>>
    ELSE (IF col + dc * (row - from) \in Cells(k) /\ b[from][col + dc * (row - from)] = 1
          THEN << <<from, col + dc * (row - from)>> >> ELSE <<>>)
         \o LineTopDown(k, b, row, col, dc, from + 1)

\* the queens at (i, col + dc * (row - i)) for i = from, from - 1, ..., 0
LineBottomUp(k, b, row, col, dc, from) ==
    IF from < 0 THEN <<>>
    ELSE (IF col + dc * (row - from) \in Cells(k) /\ b[from][col + dc * (row - from)] = 1
          THEN << <<from, col + dc * (row - from)>> >> ELSE <<>>)
         \o LineBottomUp(k, b, row, col, dc, from - 1)

\* C7 as stated: the conflicts of is_safe are the queens above `row` on the
\* column, then on the upper-left diagonal, then on the upper-right diagonal,
\* top-to-bottom within each group; safe iff there are none.
C7_ConflictsTopDown ==
    pc = "checked" =>
        /\ response.conflicts =
              LineTopDown(request.n, request.board, request.row, request.col, 0, 0)
              \o LineTopDown(request.n, request.board, request.row, request.col, -1, 0)
              \o LineTopDown(request.n, request.board, request.row, request.col, 1, 0)
        /\ response.safe <=> response.conflicts = <<>>

\* C7 amended: the conflicts of is_safe are the queens above `row` on the
\* column, top-to-bottom, then on the upper-left diagonal and then on the
\* upper-right diagonal, each diagonal bottom-to-top (nearest queen first);
\* safe iff there are none.
C7_ConflictsInScanOrder ==
    pc = "checked" =>
        /\ response.conflicts =
              LineTopDown(request.n, request.board, request.row, request.col, 0, 0)
              \o LineBottomUp(request.n, request.board, request.row, request.col, -1,
                              request.row - 1)
              \o LineBottomUp(request.n, request.board, request.row, request.col, 1,
                              request.row - 1)
        /\ response.safe <=> response.conflicts = <<>>

\* a cell with two conflicts on its column and two on its upper-left diagonal
C7_Witness ==
    /\ pc = "checked"
    /\ request.row = 2
    /\ request.col = 2
    /\ ~response.safe
    /\ response.conflicts = << <<0, 2>>, <<1, 2>>, <<1, 1>>, <<0, 0>> >>

====
